---- MODULE Spec2Model ----
(***************************************************************************)
(* Model of the security layer of astro-build-time-constants               *)
(* (src/scripts/check-docstrings.cjs, lines 321-597: the secret scanner,   *)
(* the JWT verifier and the gate enforceSecurityOnConfig that composes     *)
(* them).                                                                  *)
(*                                                                         *)
(* Strings are sequences of one-character strings, so that toLowerCase,    *)
(* includes, split and path concatenation are computed, not assumed.       *)
(* An optional value (a property that may be undefined) is a record        *)
(* [def |-> BOOLEAN, v |-> value].                                         *)
(***************************************************************************)
EXTENDS Integers, Sequences, FiniteSets, TLC

VARIABLES
  config,        \* buildTimeConstantsConfig, the tree handed to the gate
  secrets,       \* securityOptions.secrets
  jwt,           \* securityOptions.jwt (optional)
  env,           \* process.env: the token and secret variables
  nowMs,         \* now.getTime()
  pc,            \* position of the call
  console,       \* the messages passed to console.warn, in order
  outcome,       \* what the caller receives: a return value or a thrown error
  verifierCalls, \* how many times verifyJwtToken was entered
  checks,        \* the checks of verifyJwtToken evaluated so far, in order
  tokenSource    \* how the token under verification was made (an input's record)

vars ==
  <<config, secrets, jwt, env, nowMs, pc, console, outcome, verifierCalls, checks,
    tokenSource>>

(***************************************************************************)
(* Bounds of the model.                                                    *)
(***************************************************************************)
\* Number of values (leaves, mappings, sequences) below the root mapping.
MaxNodes == 3

(***************************************************************************)
(* Optional values.                                                        *)
(***************************************************************************)
\* undefined, for a string, a list or a buffer
Undefined == [def |-> FALSE, v |-> <<>>]
\* undefined, for a name (a mode, an environment variable's name, a hash name)
UndefinedName == [def |-> FALSE, v |-> ""]
\* undefined, for a boolean and for a number
UndefinedBoolean == [def |-> FALSE, v |-> FALSE]
UndefinedNumber == [def |-> FALSE, v |-> 0]
Some(x) == [def |-> TRUE, v |-> x]

(***************************************************************************)
(* Strings.                                                                *)
(***************************************************************************)
Digits == <<"0","1","2","3","4","5","6","7","8","9">>

\* String.prototype.toLowerCase on one character.
LowerChar(c) ==
  LET upper == <<"A","B","C","D","E","F","G","H","I","J","K","L","M",
                 "N","O","P","Q","R","S","T","U","V","W","X","Y","Z">>
      lower == <<"a","b","c","d","e","f","g","h","i","j","k","l","m",
                 "n","o","p","q","r","s","t","u","v","w","x","y","z">>
  IN IF \E i \in 1..26 : upper[i] = c
       THEN lower[CHOOSE i \in 1..26 : upper[i] = c]
       ELSE c

\* String.prototype.toLowerCase.
toLowerCase(s) == [i \in 1..Len(s) |-> LowerChar(s[i])]

\* String.prototype.includes: the empty string is included in every string.
includes(s, sub) ==
  \E i \in 0..(Len(s) - Len(sub)) : SubSeq(s, i + 1, i + Len(sub)) = sub

\* The decimal text of a non-negative integer, as a template literal prints it.
RECURSIVE NatToString(_)
NatToString(n) ==
  IF n < 10 THEN <<Digits[n + 1]>>
  ELSE NatToString(n \div 10) \o <<Digits[(n % 10) + 1]>>

\* A string is falsy exactly when it is empty.
Truthy(s) == Len(s) > 0

(***************************************************************************)
(* Program constants.                                                      *)
(***************************************************************************)
DEFAULT_SECRET_BLOCKLIST ==
  << <<"s","e","c","r","e","t">>,
     <<"p","a","s","s","w","o","r","d">>,
     <<"t","o","k","e","n">>,
     <<"c","r","e","d","e","n","t","i","a","l">>,
     <<"p","a","s","s","p","h","r","a","s","e">>,
     <<"p","r","i","v","a","t","e","k","e","y">>,
     <<"a","p","i","k","e","y">> >>

PROHIBITED_PROPERTY_NAMES ==
  { <<"_","_","p","r","o","t","o","_","_">>,
    <<"p","r","o","t","o","t","y","p","e">>,
    <<"c","o","n","s","t","r","u","c","t","o","r">> }

DEFAULT_SECRET_MODE == "error"

\* The path the gate roots the scan at.
CustomRoot == <<"c","u","s","t","o","m">>

(***************************************************************************)
(* Configuration values.                                                   *)
(*   leaf:     [t |-> "leaf", typeof, isNull, isDate, hasToJSON]           *)
(*   sequence: [t |-> "arr", e |-> <<value, ...>>]                         *)
(*   mapping:  [t |-> "obj", e |-> <<[k |-> key, v |-> value], ...>>]      *)
(* A mapping keeps its entries in insertion order, as Object.entries       *)
(* returns them.                                                           *)
(***************************************************************************)
Leaf(ty, isNull, isDate, hasToJSON) ==
  [t |-> "leaf", typeof |-> ty, isNull |-> isNull, isDate |-> isDate,
   hasToJSON |-> hasToJSON]

Arr(elems) == [t |-> "arr", e |-> elems]
Obj(entries) == [t |-> "obj", e |-> entries]

StringLeaf == Leaf("string", FALSE, FALSE, FALSE)
NumberLeaf == Leaf("number", FALSE, FALSE, FALSE)
BooleanLeaf == Leaf("boolean", FALSE, FALSE, FALSE)
NullLeaf == Leaf("object", TRUE, FALSE, FALSE)
DateLeaf == Leaf("object", FALSE, TRUE, TRUE)
\* An object that is not a plain object and exposes toJSON (a URL, a Buffer).
ToJsonLeaf == Leaf("object", FALSE, FALSE, TRUE)
FunctionLeaf == Leaf("function", FALSE, FALSE, FALSE)

\* Array.isArray
IsArray(value) == value.t = "arr"

\* isPlainObject: Object.prototype.toString.call(value) === '[object Object]'
isPlainObject(value) == value.t = "obj"

\* isSerializableLeaf: null, string, number, boolean, Date, or an object with a
\* toJSON function.
isSerializableLeaf(value) ==
  \/ value.isNull
  \/ value.typeof \in {"string", "number", "boolean"}
  \/ value.isDate
  \/ (value.typeof = "object" /\ value.hasToJSON)

(***************************************************************************)
(* Errors and warnings of the scanner.                                     *)
(***************************************************************************)
NoError == [kind |-> "none", path |-> <<>>, keyword |-> <<>>]
SecretError(path, blocked) == [kind |-> "secret", path |-> path, keyword |-> blocked]
UnsafeNameError(target) == [kind |-> "unsafe", path |-> target, keyword |-> <<>>]
UnsupportedError(path) == [kind |-> "unsupported", path |-> path, keyword |-> <<>>]

(***************************************************************************)
(* normalizeSecretOptions                                                  *)
(***************************************************************************)
\* Array.from(new Set(list)): the first occurrence of each element, in order.
RECURSIVE Dedupe(_)
Dedupe(list) ==
  IF list = <<>> THEN <<>>
  ELSE LET init == Dedupe(SubSeq(list, 1, Len(list) - 1))
           last == list[Len(list)]
       IN IF \E i \in 1..Len(init) : init[i] = last THEN init
          ELSE Append(init, last)

MapLower(list) == [i \in 1..Len(list) |-> toLowerCase(list[i])]

normalizeSecretOptions(s) ==
  [blocklist |->
     Dedupe(DEFAULT_SECRET_BLOCKLIST
              \o MapLower(IF s.blocklist.def THEN s.blocklist.v ELSE <<>>)),
   allowList |->
     {toLowerCase(entry) :
        entry \in IF s.allowList.def
                    THEN {s.allowList.v[i] : i \in 1..Len(s.allowList.v)}
                    ELSE {}},
   mode |-> IF s.mode.def THEN s.mode.v ELSE DEFAULT_SECRET_MODE]

(***************************************************************************)
(* The scanner.  Its effect is a record [error, warnings]: the error it    *)
(* threw (NoError when it returned) and the warnings it logged.  An        *)
(* exception ends every enclosing forEach, so each step passes the record  *)
(* on unchanged once error is set.                                         *)
(***************************************************************************)
ScanStart == [error |-> NoError, warnings |-> <<>>]

ensureSafePropertyNameRootOnly(key, path) ==
  IF key \in PROHIBITED_PROPERTY_NAMES /\ path = CustomRoot
    THEN UnsafeNameError(IF Truthy(path) THEN path \o <<".">> \o key ELSE key)
    ELSE NoError

\* ensureSafePropertyName: the error it throws, or NoError.
ensureSafePropertyName(key, path) ==
  IF key \in PROHIBITED_PROPERTY_NAMES
    THEN UnsafeNameError(IF Truthy(path) THEN path \o <<".">> \o key ELSE key)
    ELSE NoError

\* options.blocklist.find(...): the first entry included in the key, or
\* undefined.
FindBlocked(blocklist, normalizedKey) ==
  IF \E i \in 1..Len(blocklist) : includes(normalizedKey, blocklist[i])
    THEN Some(blocklist[CHOOSE i \in 1..Len(blocklist) :
                 /\ includes(normalizedKey, blocklist[i])
                 /\ \A j \in 1..(i - 1) : ~includes(normalizedKey, blocklist[j])])
    ELSE Undefined

enforceSecretPolicyCaseSensitive(key, path, options) ==
  LET normalizedKey == toLowerCase(key)
      blocked == FindBlocked(options.blocklist, normalizedKey)
  IN IF ~blocked.def \/ ~Truthy(blocked.v) THEN [act |-> "pass", msg |-> NoError]
     ELSE IF path \in options.allowList THEN [act |-> "pass", msg |-> NoError]
     ELSE IF options.mode = "warn"
       THEN [act |-> "warn", msg |-> SecretError(path, blocked.v)]
       ELSE [act |-> "throw", msg |-> SecretError(path, blocked.v)]

enforceSecretPolicyNoEarlyReturn(key, path, options) ==
  LET normalizedKey == toLowerCase(key)
      blocked == FindBlocked(options.blocklist, normalizedKey)
  IN IF toLowerCase(path) \in options.allowList
       THEN [act |-> "pass", msg |-> NoError]
     ELSE IF options.mode = "warn"
       THEN [act |-> "warn", msg |-> SecretError(path, blocked.v)]
       ELSE [act |-> "throw", msg |-> SecretError(path, blocked.v)]

\* enforceSecretPolicy: what it does for one key: pass, warn or throw.
enforceSecretPolicy(key, path, options) ==
  LET normalizedKey == toLowerCase(key)
      blocked == FindBlocked(options.blocklist, normalizedKey)
  IN IF ~blocked.def \/ ~Truthy(blocked.v) THEN [act |-> "pass", msg |-> NoError]
     ELSE IF toLowerCase(path) \in options.allowList
       THEN [act |-> "pass", msg |-> NoError]
     ELSE IF options.mode = "warn"
       THEN [act |-> "warn", msg |-> SecretError(path, blocked.v)]
       ELSE [act |-> "throw", msg |-> SecretError(path, blocked.v)]

RECURSIVE scanConfigForSecurityViolations(_, _, _, _)
RECURSIVE ScanElements(_, _, _, _, _)
RECURSIVE ScanEntries(_, _, _, _, _)

\* value.forEach((entry, index) => scan(entry, options, `${path}[${index}]`))
ScanElements(elems, i, options, currentPath, st) ==
  IF i > Len(elems) \/ st.error # NoError THEN st
  ELSE ScanElements(elems, i + 1, options, currentPath,
         scanConfigForSecurityViolations(
           elems[i], options,
           currentPath \o <<"[">> \o NatToString(i - 1) \o <<"]">>, st))

\* Object.entries(value).forEach(([key, child]) => { ... })
ScanEntries(entries, i, options, currentPath, st) ==
  IF i > Len(entries) \/ st.error # NoError THEN st
  ELSE
    LET key == entries[i].k
        child == entries[i].v
        unsafe == ensureSafePropertyName(key, currentPath)
        nextPath == IF Truthy(currentPath) THEN currentPath \o <<".">> \o key
                    ELSE key
        policy == enforceSecretPolicy(key, nextPath, options)
        st1 == IF unsafe # NoError THEN [st EXCEPT !.error = unsafe]
               ELSE IF policy.act = "throw" THEN [st EXCEPT !.error = policy.msg]
               ELSE IF policy.act = "warn"
                 THEN [st EXCEPT !.warnings = Append(@, policy.msg)]
               ELSE st
    IN ScanEntries(entries, i + 1, options, currentPath,
         scanConfigForSecurityViolations(child, options, nextPath, st1))

\* scanConfigForSecurityViolations(value, options, currentPath), continuing from
\* the effect st of what ran before it.
scanConfigForSecurityViolations(value, options, currentPath, st) ==
  IF st.error # NoError THEN st
  ELSE IF IsArray(value) THEN ScanElements(value.e, 1, options, currentPath, st)
  ELSE IF ~isPlainObject(value)
    THEN IF ~isSerializableLeaf(value)
           THEN [st EXCEPT !.error = UnsupportedError(currentPath)]
           ELSE st
  ELSE ScanEntries(value.e, 1, options, currentPath, st)

(***************************************************************************)
(* resolveJwtInputs and the decision of the gate.                          *)
(***************************************************************************)
JWT_TOKEN_ENV == "ASTRO_BUILD_TIME_TOKEN"
JWT_SECRET_ENV == "ASTRO_BUILD_TIME_SECRET"

\* The environment variables the model gives a value to.
EnvNames == {JWT_TOKEN_ENV, JWT_SECRET_ENV, "CI_TOKEN", "CI_SECRET"}

\* process.env[name]
EnvGet(e, name) == IF name \in DOMAIN e THEN e[name] ELSE Undefined

\* a ?? b
Coalesce(a, b) == IF a.def THEN a ELSE b

\* {}: every option undefined.
EmptyJwtOptions ==
  [token |-> Undefined, tokenEnvName |-> UndefinedName, secret |-> Undefined,
   secretEnvName |-> UndefinedName, issuer |-> Undefined, subject |-> Undefined,
   audience |-> [def |-> FALSE, v |-> [isArray |-> FALSE, s |-> <<>>, list |-> <<>>]],
   required |-> UndefinedBoolean, algorithms |-> Undefined,
   clockToleranceSeconds |-> UndefinedNumber]

\* resolveJwtInputs: the explicit option, else the named environment variable.
resolveJwtInputs(jwtOptions, e) ==
  LET tokenEnvName == Coalesce(jwtOptions.tokenEnvName, Some(JWT_TOKEN_ENV)).v
      secretEnvName == Coalesce(jwtOptions.secretEnvName, Some(JWT_SECRET_ENV)).v
  IN [token |->
        Coalesce(jwtOptions.token,
                 IF tokenEnvName # "" THEN EnvGet(e, tokenEnvName) ELSE Undefined),
      secret |->
        Coalesce(jwtOptions.secret,
                 IF secretEnvName # "" THEN EnvGet(e, secretEnvName) ELSE Undefined),
      tokenEnvName |-> tokenEnvName,
      secretEnvName |-> secretEnvName]

\* Boolean(s) of an optional string.
BooleanOf(s) == s.def /\ Truthy(s.v)

shouldValidateJwtTokenOnly(jwtOpt, e) ==
  IF jwtOpt.def
    THEN BooleanOf(resolveJwtInputs(jwtOpt.v, e).token)
    ELSE BooleanOf(resolveJwtInputs(EmptyJwtOptions, e).token)

\* shouldValidateJwt of enforceSecurityOnConfig.
shouldValidateJwt(jwtOpt, e) ==
  IF jwtOpt.def
    THEN \/ Coalesce(jwtOpt.v.required, Some(FALSE)).v
         \/ BooleanOf(resolveJwtInputs(jwtOpt.v, e).token)
    ELSE BooleanOf(resolveJwtInputs(EmptyJwtOptions, e).token)

(***************************************************************************)
(* Bytes and text.  A Buffer is a sequence of integers 0..255; the text    *)
(* the model handles is printable ASCII.                                   *)
(***************************************************************************)
Ascii ==
  <<" ","!","\"","#","$","%","&","'","(",")","*","+",",","-",".","/",
    "0","1","2","3","4","5","6","7","8","9",":",";","<","=",">","?",
    "@","A","B","C","D","E","F","G","H","I","J","K","L","M","N","O",
    "P","Q","R","S","T","U","V","W","X","Y","Z","[","\\","]","^","_",
    "U+0060","a","b","c","d","e","f","g","h","i","j","k","l","m","n","o",
    "p","q","r","s","t","u","v","w","x","y","z","{","|","}","~">>

\* (The grave accent, code 96, cannot be written in a string of this language:
\* the table holds a name for it.)

\* What a byte outside printable ASCII decodes to: a character no JSON token
\* of the model contains.
OtherChar == "U+FFFD"

\* The character code of a character.
Ord(c) ==
  IF \E i \in 1..Len(Ascii) : Ascii[i] = c
    THEN 31 + (CHOOSE i \in 1..Len(Ascii) : Ascii[i] = c)
    ELSE 63

\* Buffer.from(text): the bytes of a text.
Utf8Bytes(s) == [i \in 1..Len(s) |-> Ord(s[i])]

\* buffer.toString('utf8')
Utf8Text(bytes) ==
  [i \in 1..Len(bytes) |->
     IF bytes[i] \in 32..126 THEN Ascii[bytes[i] - 31] ELSE OtherChar]

\* String.prototype.replace(/c/g, d) for single characters.
ReplaceAll(s, c, d) == [i \in 1..Len(s) |-> IF s[i] = c THEN d ELSE s[i]]

(***************************************************************************)
(* Base64.                                                                 *)
(***************************************************************************)
Base64Alphabet ==
  <<"A","B","C","D","E","F","G","H","I","J","K","L","M","N","O","P",
    "Q","R","S","T","U","V","W","X","Y","Z","a","b","c","d","e","f",
    "g","h","i","j","k","l","m","n","o","p","q","r","s","t","u","v",
    "w","x","y","z","0","1","2","3","4","5","6","7","8","9","+","/">>

\* The six-bit value of a base64 character; the decoder reads '-' and '_' as
\* '+' and '/'.  -1 for a character outside the alphabet.
Unbase64(c) ==
  IF c = "-" THEN 62
  ELSE IF c = "_" THEN 63
  ELSE IF \E i \in 1..64 : Base64Alphabet[i] = c
    THEN (CHOOSE i \in 1..64 : Base64Alphabet[i] = c) - 1
    ELSE -1

RECURSIVE EncodeGroups(_)
\* buffer.toString('base64'): three bytes to four characters, '=' padding.
EncodeGroups(bytes) ==
  IF Len(bytes) = 0 THEN <<>>
  ELSE IF Len(bytes) = 1
    THEN <<Base64Alphabet[(bytes[1] \div 4) + 1],
           Base64Alphabet[((bytes[1] % 4) * 16) + 1], "=", "=">>
  ELSE IF Len(bytes) = 2
    THEN <<Base64Alphabet[(bytes[1] \div 4) + 1],
           Base64Alphabet[((bytes[1] % 4) * 16) + (bytes[2] \div 16) + 1],
           Base64Alphabet[((bytes[2] % 16) * 4) + 1], "=">>
  ELSE <<Base64Alphabet[(bytes[1] \div 4) + 1],
         Base64Alphabet[((bytes[1] % 4) * 16) + (bytes[2] \div 16) + 1],
         Base64Alphabet[((bytes[2] % 16) * 4) + (bytes[3] \div 64) + 1],
         Base64Alphabet[(bytes[3] % 64) + 1]>>
         \o EncodeGroups(SubSeq(bytes, 4, Len(bytes)))

ToBase64(bytes) == EncodeGroups(bytes)

\* The characters before the first '='.
BeforePadding(s) ==
  IF \E i \in 1..Len(s) : s[i] = "="
    THEN SubSeq(s, 1, (CHOOSE i \in 1..Len(s) :
                         s[i] = "=" /\ \A j \in 1..(i - 1) : s[j] # "=") - 1)
    ELSE s

RECURSIVE DecodeGroups(_)
\* Four six-bit values to three bytes; a last group of two or three values
\* gives one or two bytes, a last single value none.
DecodeGroups(x) ==
  IF Len(x) <= 1 THEN <<>>
  ELSE IF Len(x) = 2 THEN <<(x[1] * 4) + (x[2] \div 16)>>
  ELSE IF Len(x) = 3
    THEN <<(x[1] * 4) + (x[2] \div 16), ((x[2] % 16) * 16) + (x[3] \div 4)>>
  ELSE <<(x[1] * 4) + (x[2] \div 16), ((x[2] % 16) * 16) + (x[3] \div 4),
         ((x[3] % 4) * 64) + x[4]>>
         \o DecodeGroups(SubSeq(x, 5, Len(x)))

\* Buffer.from(text, 'base64'): decoding stops at the first '=', characters
\* outside the alphabet are skipped.
BufferFromBase64(s) ==
  LET data == BeforePadding(s)
      values == [i \in 1..Len(data) |-> Unbase64(data[i])]
  IN DecodeGroups(SelectSeq(values, LAMBDA x : x >= 0))

\* value.padEnd(length + (4 - length % 4) % 4, '=')

\* base64UrlDecode
base64UrlDecode(value) ==
  LET normalized == ReplaceAll(ReplaceAll(value, "-", "+"), "_", "/")
      padded == normalized \o [i \in 1..((4 - (Len(normalized) % 4)) % 4) |-> "="]
  IN BufferFromBase64(padded)

\* The encoding the tokens are built with:
\* toString('base64').replace(/=/g, '').replace(/\+/g, '-').replace(/\//g, '_')
Base64UrlEncode(bytes) ==
  ReplaceAll(ReplaceAll(SelectSeq(ToBase64(bytes), LAMBDA x : x # "="), "+", "-"), "/", "_")

(***************************************************************************)
(* JSON.  Values: null, booleans, integers, strings without escapes,       *)
(* arrays and objects; texts carry no whitespace, as JSON.stringify        *)
(* writes them.  An object keeps its members in order.                     *)
(***************************************************************************)
JNull == [t |-> "null"]
JBool(b) == [t |-> "bool", b |-> b]
JNum(n) == [t |-> "num", n |-> n]
JStr(s) == [t |-> "str", s |-> s]
JArr(elems) == [t |-> "arr", e |-> elems]
JObj(members) == [t |-> "obj", e |-> members]

\* undefined, for a parsed value
UndefinedJson == [def |-> FALSE, v |-> JNull]

Quote(s) == <<"\"">> \o s \o <<"\"">>

IntToString(n) == IF n < 0 THEN <<"-">> \o NatToString(-n) ELSE NatToString(n)

RECURSIVE JsonStringify(_)
RECURSIVE StringifyElements(_, _)
RECURSIVE StringifyMembers(_, _)

StringifyElements(elems, i) ==
  IF i > Len(elems) THEN <<>>
  ELSE (IF i > 1 THEN <<",">> ELSE <<>>) \o JsonStringify(elems[i])
         \o StringifyElements(elems, i + 1)

StringifyMembers(members, i) ==
  IF i > Len(members) THEN <<>>
  ELSE (IF i > 1 THEN <<",">> ELSE <<>>) \o Quote(members[i].k) \o <<":">>
         \o JsonStringify(members[i].v) \o StringifyMembers(members, i + 1)

\* JSON.stringify
JsonStringify(v) ==
  IF v.t = "null" THEN <<"n","u","l","l">>
  ELSE IF v.t = "bool"
    THEN (IF v.b THEN <<"t","r","u","e">> ELSE <<"f","a","l","s","e">>)
  ELSE IF v.t = "num" THEN IntToString(v.n)
  ELSE IF v.t = "str" THEN Quote(v.s)
  ELSE IF v.t = "arr" THEN <<"[">> \o StringifyElements(v.e, 1) \o <<"]">>
  ELSE <<"{">> \o StringifyMembers(v.e, 1) \o <<"}">>

ParseFail == [ok |-> FALSE, v |-> JNull, next |-> 0]
Parsed(v, next) == [ok |-> TRUE, v |-> v, next |-> next]

IsDigit(c) == \E i \in 1..10 : Digits[i] = c
DigitValue(c) == (CHOOSE i \in 1..10 : Digits[i] = c) - 1

\* The position after the digits that start at position p.
RECURSIVE DigitsEnd(_, _)
DigitsEnd(s, p) == IF p <= Len(s) /\ IsDigit(s[p]) THEN DigitsEnd(s, p + 1) ELSE p

RECURSIVE DigitsValue(_, _, _)
DigitsValue(s, p, q) ==
  IF q < p THEN 0 ELSE (DigitsValue(s, p, q - 1) * 10) + DigitValue(s[q])

\* An integer at position p: an optional '-', then 0 or a digit string without
\* a leading zero; a fraction or an exponent is outside the model.
ParseNumber(s, p) ==
  LET neg == p <= Len(s) /\ s[p] = "-"
      from == IF neg THEN p + 1 ELSE p
      to == DigitsEnd(s, from)
  IN IF to = from THEN ParseFail
     ELSE IF s[from] = "0" /\ to > from + 1 THEN ParseFail
     ELSE IF to <= Len(s) /\ s[to] \in {".", "e", "E"} THEN ParseFail
     ELSE Parsed(JNum(IF neg THEN -DigitsValue(s, from, to - 1)
                             ELSE DigitsValue(s, from, to - 1)), to)

\* A string at position p (which holds the opening quote).
ParseString(s, p) ==
  IF \E q \in (p + 1)..Len(s) : s[q] = "\""
    THEN LET q == CHOOSE q \in (p + 1)..Len(s) :
                    s[q] = "\"" /\ \A r \in (p + 1)..(q - 1) : s[r] # "\""
             body == SubSeq(s, p + 1, q - 1)
         IN IF \E r \in 1..Len(body) : body[r] \in {"\\", OtherChar}
              THEN ParseFail
              ELSE Parsed(JStr(body), q + 1)
    ELSE ParseFail

\* Whether the text holds the word at position p.
HasAt(s, p, word) ==
  p + Len(word) - 1 <= Len(s) /\ SubSeq(s, p, p + Len(word) - 1) = word

RECURSIVE ParseValue(_, _)
RECURSIVE ParseElements(_, _, _)
RECURSIVE ParseMembers(_, _, _)

\* The elements of an array from position p on, after the elements acc.
ParseElements(s, p, acc) ==
  LET el == ParseValue(s, p)
  IN IF ~el.ok THEN ParseFail
     ELSE IF el.next <= Len(s) /\ s[el.next] = ","
       THEN ParseElements(s, el.next + 1, Append(acc, el.v))
     ELSE IF el.next <= Len(s) /\ s[el.next] = "]"
       THEN Parsed(JArr(Append(acc, el.v)), el.next + 1)
     ELSE ParseFail

\* The members of an object from position p on, after the members acc.
ParseMembers(s, p, acc) ==
  IF p > Len(s) \/ s[p] # "\"" THEN ParseFail
  ELSE LET key == ParseString(s, p)
       IN IF ~key.ok \/ key.next > Len(s) \/ s[key.next] # ":" THEN ParseFail
          ELSE LET val == ParseValue(s, key.next + 1)
                   all == Append(acc, [k |-> key.v.s, v |-> val.v])
               IN IF ~val.ok THEN ParseFail
                  ELSE IF val.next <= Len(s) /\ s[val.next] = ","
                    THEN ParseMembers(s, val.next + 1, all)
                  ELSE IF val.next <= Len(s) /\ s[val.next] = "}"
                    THEN Parsed(JObj(all), val.next + 1)
                  ELSE ParseFail

\* The JSON value that starts at position p.
ParseValue(s, p) ==
  IF p > Len(s) THEN ParseFail
  ELSE IF HasAt(s, p, <<"n","u","l","l">>) THEN Parsed(JNull, p + 4)
  ELSE IF HasAt(s, p, <<"t","r","u","e">>) THEN Parsed(JBool(TRUE), p + 4)
  ELSE IF HasAt(s, p, <<"f","a","l","s","e">>) THEN Parsed(JBool(FALSE), p + 5)
  ELSE IF s[p] = "\"" THEN ParseString(s, p)
  ELSE IF s[p] = "-" \/ IsDigit(s[p]) THEN ParseNumber(s, p)
  ELSE IF s[p] = "["
    THEN IF p + 1 <= Len(s) /\ s[p + 1] = "]" THEN Parsed(JArr(<<>>), p + 2)
         ELSE ParseElements(s, p + 1, <<>>)
  ELSE IF s[p] = "{"
    THEN IF p + 1 <= Len(s) /\ s[p + 1] = "}" THEN Parsed(JObj(<<>>), p + 2)
         ELSE ParseMembers(s, p + 1, <<>>)
  ELSE ParseFail

\* JSON.parse: [ok, v]; ok is FALSE where JSON.parse throws a SyntaxError.
JsonParse(s) ==
  LET r == ParseValue(s, 1)
  IN IF r.ok /\ r.next = Len(s) + 1 THEN [ok |-> TRUE, v |-> r.v]
     ELSE [ok |-> FALSE, v |-> JNull]

\* value[name] of a parsed value: the last member of that name of an object,
\* undefined on anything else.  (Reading a property of null throws; the callers
\* test for null first.)
Member(v, name) ==
  IF v.t = "obj" /\ \E i \in 1..Len(v.e) : v.e[i].k = name
    THEN Some(v.e[CHOOSE i \in 1..Len(v.e) :
                    v.e[i].k = name /\ \A j \in (i + 1)..Len(v.e) : v.e[j].k # name].v)
    ELSE UndefinedJson

\* Whether an optional parsed value is truthy.
JTruthy(x) ==
  /\ x.def
  /\ x.v.t # "null"
  /\ (x.v.t = "bool" => x.v.b)
  /\ (x.v.t = "num" => x.v.n # 0)
  /\ (x.v.t = "str" => Len(x.v.s) > 0)

\* x === s for an optional parsed value x and a string s.
IsString(x, s) == x.def /\ x.v.t = "str" /\ x.v.s = s

\* parseJwtSegment: JSON.parse(base64UrlDecode(segment).toString('utf8')); ok is
\* FALSE where it throws 'Unable to parse JWT <segmentName>'.
parseJwtSegment(segment) == JsonParse(Utf8Text(base64UrlDecode(segment)))

(***************************************************************************)
(* HMAC.  crypto.createHmac is Node's: HMAC (RFC 2104) over SHA-256,       *)
(* SHA-384 and SHA-512 (FIPS 180-4), computed here byte for byte.          *)
(***************************************************************************)
AlgHS256 == <<"H","S","2","5","6">>
AlgHS384 == <<"H","S","3","8","4">>
AlgHS512 == <<"H","S","5","1","2">>
\* A name the table has no entry for.
AlgNone == <<"n","o","n","e">>

\* The names every object inherits from Object.prototype
\* (Object.getOwnPropertyNames(Object.prototype)): the lookup
\* HASH_ALGORITHM_BY_JWT_ALG[alg] finds a truthy inherited member for them.
InheritedNames ==
  { <<"_","_","d","e","f","i","n","e","G","e","t","t","e","r","_","_">>,
    <<"_","_","d","e","f","i","n","e","S","e","t","t","e","r","_","_">>,
    <<"_","_","l","o","o","k","u","p","G","e","t","t","e","r","_","_">>,
    <<"_","_","l","o","o","k","u","p","S","e","t","t","e","r","_","_">>,
    <<"_","_","p","r","o","t","o","_","_">>,
    <<"c","o","n","s","t","r","u","c","t","o","r">>,
    <<"h","a","s","O","w","n","P","r","o","p","e","r","t","y">>,
    <<"i","s","P","r","o","t","o","t","y","p","e","O","f">>,
    <<"p","r","o","p","e","r","t","y","I","s","E","n","u","m","e","r","a","b","l","e">>,
    <<"t","o","L","o","c","a","l","e","S","t","r","i","n","g">>,
    <<"t","o","S","t","r","i","n","g">>,
    <<"v","a","l","u","e","O","f">> }

\* HASH_ALGORITHM_BY_JWT_ALG[alg]
HashAlgorithmByJwtAlg(alg) ==
  IF alg = AlgHS256 THEN Some("sha256")
  ELSE IF alg = AlgHS384 THEN Some("sha384")
  ELSE IF alg = AlgHS512 THEN Some("sha512")
  ELSE IF alg \in InheritedNames THEN Some("inherited")
  ELSE UndefinedName

\* The constants of SHA-2 (FIPS 180-4) and the exclusive or of two 4-bit
\* numbers.  A 32-bit word of SHA-256 is held as four 8-bit limbs, a 64-bit
\* word of SHA-384 and SHA-512 as four 16-bit limbs, the most significant
\* first.  k holds the 80 round constants as 64-bit words; those of SHA-256
\* are their upper halves.
ShaTables ==
  [xor |->
     <<
       <<0, 1, 2, 3, 4, 5, 6, 7, 8, 9, 10, 11, 12, 13, 14, 15>>,
       <<1, 0, 3, 2, 5, 4, 7, 6, 9, 8, 11, 10, 13, 12, 15, 14>>,
       <<2, 3, 0, 1, 6, 7, 4, 5, 10, 11, 8, 9, 14, 15, 12, 13>>,
       <<3, 2, 1, 0, 7, 6, 5, 4, 11, 10, 9, 8, 15, 14, 13, 12>>,
       <<4, 5, 6, 7, 0, 1, 2, 3, 12, 13, 14, 15, 8, 9, 10, 11>>,
       <<5, 4, 7, 6, 1, 0, 3, 2, 13, 12, 15, 14, 9, 8, 11, 10>>,
       <<6, 7, 4, 5, 2, 3, 0, 1, 14, 15, 12, 13, 10, 11, 8, 9>>,
       <<7, 6, 5, 4, 3, 2, 1, 0, 15, 14, 13, 12, 11, 10, 9, 8>>,
       <<8, 9, 10, 11, 12, 13, 14, 15, 0, 1, 2, 3, 4, 5, 6, 7>>,
       <<9, 8, 11, 10, 13, 12, 15, 14, 1, 0, 3, 2, 5, 4, 7, 6>>,
       <<10, 11, 8, 9, 14, 15, 12, 13, 2, 3, 0, 1, 6, 7, 4, 5>>,
       <<11, 10, 9, 8, 15, 14, 13, 12, 3, 2, 1, 0, 7, 6, 5, 4>>,
       <<12, 13, 14, 15, 8, 9, 10, 11, 4, 5, 6, 7, 0, 1, 2, 3>>,
       <<13, 12, 15, 14, 9, 8, 11, 10, 5, 4, 7, 6, 1, 0, 3, 2>>,
       <<14, 15, 12, 13, 10, 11, 8, 9, 6, 7, 4, 5, 2, 3, 0, 1>>,
       <<15, 14, 13, 12, 11, 10, 9, 8, 7, 6, 5, 4, 3, 2, 1, 0>>
     >>,
   k |->
     <<
       <<17034, 12184, 55080, 44578>>, <<28983, 17553, 9199, 26061>>,
       <<46528, 64463, 60493, 15151>>, <<59829, 56229, 33161, 56252>>,
       <<14678, 49755, 62280, 46392>>, <<23025, 4593, 46597, 53273>>,
       <<37439, 33444, 44825, 20379>>, <<43804, 24277, 55917, 33048>>,
       <<55303, 43672, 41731, 578>>, <<4739, 23297, 17776, 28606>>,
       <<9265, 34238, 20196, 45708>>, <<21772, 32195, 54783, 46306>>,
       <<29374, 23924, 62075, 35183>>, <<32990, 45566, 15126, 38577>>,
       <<39900, 1703, 9671, 4661>>, <<49563, 61812, 53097, 9876>>,
       <<58523, 27073, 40689, 19154>>, <<61374, 18310, 14415, 9699>>,
       <<4033, 40390, 35724, 54709>>, <<9228, 41420, 30636, 40037>>,
       <<11753, 11375, 22827, 629>>, <<19060, 33962, 28326, 58499>>,
       <<23728, 43484, 48449, 64468>>, <<30457, 35034, 33553, 21429>>,
       <<38974, 20818, 61030, 57259>>, <<43057, 50797, 11700, 12816>>,
       <<45059, 10184, 39163, 8511>>, <<48985, 32711, 48879, 3812>>,
       <<50912, 3059, 15784, 36802>>, <<54695, 37191, 37642, 42789>>,
       <<1738, 25425, 57347, 33391>>, <<5161, 10599, 2574, 28272>>,
       <<10167, 2693, 18130, 12284>>, <<11803, 8504, 23590, 51494>>,
       <<19756, 28156, 23236, 10989>>, <<21304, 3347, 40341, 46047>>,
       <<25866, 29524, 35759, 25566>>, <<30314, 2747, 15479, 45736>>,
       <<33218, 51502, 18413, 44774>>, <<37490, 11397, 5250, 13627>>,
       <<41663, 59553, 19697, 868>>, <<43034, 26187, 48194, 12289>>,
       <<49739, 35696, 53496, 38801>>, <<51052, 20899, 1620, 48688>>,
       <<53650, 59417, 55023, 21016>>, <<54937, 1572, 21861, 43280>>,
       <<62478, 13701, 22385, 8234>>, <<4202, 41072, 12987, 53688>>,
       <<6564, 49430, 47314, 53448>>, <<7735, 27656, 20801, 43859>>,
       <<10056, 30540, 57230, 60313>>, <<13488, 48309, 57755, 18600>>,
       <<14620, 3251, 50633, 23139>>, <<20184, 43594, 58177, 35531>>,
       <<23452, 51791, 30563, 58227>>, <<26670, 28659, 54962, 47267>>,
       <<29839, 33518, 24047, 45820>>, <<30885, 25455, 17175, 12128>>,
       <<33992, 30740, 41456, 43890>>, <<36039, 520, 6756, 14828>>,
       <<37054, 65530, 9059, 7720>>, <<42064, 27883, 56962, 48617>>,
       <<48889, 41975, 45766, 30997>>, <<50801, 30962, 58226, 21291>>,
       <<51751, 16078, 59942, 24988>>, <<53638, 47303, 8640, 49671>>,
       <<60122, 32214, 52704, 60190>>, <<62845, 20351, 61038, 53624>>,
       <<1776, 26538, 29207, 28602>>, <<2659, 32197, 41672, 39078>>,
       <<4415, 38916, 48889, 3502>>, <<7025, 2869, 4892, 18203>>,
       <<10459, 30709, 8964, 32132>>, <<13002, 43899, 16583, 9363>>,
       <<15518, 48650, 5577, 48828>>, <<17181, 26564, 39952, 3404>>,
       <<19653, 54462, 52030, 17078>>, <<22911, 10652, 64613, 32298>>,
       <<24523, 28587, 15062, 64236>>, <<27716, 6540, 19015, 22551>>
     >>,
   sha256 |->
     [bits |-> 8, block |-> 64, rounds |-> 64, out |-> 32,
      S0 |-> <<2, 13, 22>>, S1 |-> <<6, 11, 25>>,
      s0 |-> <<7, 18, 3>>, s1 |-> <<17, 19, 10>>,
      init |->
        <<
          <<106, 9, 230, 103>>, <<187, 103, 174, 133>>,
          <<60, 110, 243, 114>>, <<165, 79, 245, 58>>,
          <<81, 14, 82, 127>>, <<155, 5, 104, 140>>,
          <<31, 131, 217, 171>>, <<91, 224, 205, 25>>
        >>],
   sha384 |->
     [bits |-> 16, block |-> 128, rounds |-> 80, out |-> 48,
      S0 |-> <<28, 34, 39>>, S1 |-> <<14, 18, 41>>,
      s0 |-> <<1, 8, 7>>, s1 |-> <<19, 61, 6>>,
      init |->
        <<
          <<52155, 40285, 49413, 40664>>, <<25242, 10538, 13948, 54535>>,
          <<37209, 346, 12400, 56599>>, <<5423, 60632, 63246, 22841>>,
          <<26419, 9831, 65472, 2865>>, <<36532, 19079, 26712, 5393>>,
          <<56076, 11789, 25849, 36775>>, <<18357, 18461, 48890, 20388>>
        >>],
   sha512 |->
     [bits |-> 16, block |-> 128, rounds |-> 80, out |-> 64,
      S0 |-> <<28, 34, 39>>, S1 |-> <<14, 18, 41>>,
      s0 |-> <<1, 8, 7>>, s1 |-> <<19, 61, 6>>,
      init |->
        <<
          <<27145, 58983, 62396, 51464>>, <<47975, 44677, 33994, 42811>>,
          <<15470, 62322, 65172, 63531>>, <<42319, 62778, 24349, 14065>>,
          <<20750, 21119, 44518, 33489>>, <<39685, 26764, 11070, 27679>>,
          <<8067, 55723, 64321, 48491>>, <<23520, 52505, 4990, 8569>>
        >>]]

\* The parameters of a hash with the tables it uses; m is the modulus of a
\* limb.
ShaParams(hash) ==
  ShaTables[hash] @@ [xor |-> ShaTables.xor, k |-> ShaTables.k,
                      m |-> 2 ^ ShaTables[hash].bits]

\* The exclusive or of two bytes, by the table t of 4-bit numbers.
XorByte(t, a, b) ==
  (t[(a \div 16) + 1][(b \div 16) + 1] * 16) + t[(a % 16) + 1][(b % 16) + 1]

\* The exclusive or, and the conjunction, of two limbs.
XorLimb(p, a, b) ==
  IF p.bits = 8 THEN XorByte(p.xor, a, b)
  ELSE (XorByte(p.xor, a \div 256, b \div 256) * 256)
         + XorByte(p.xor, a % 256, b % 256)

AndLimb(p, a, b) == (a + b - XorLimb(p, a, b)) \div 2

\* The exclusive or of three words.
XorWords(p, a, b, c) ==
  << XorLimb(p, XorLimb(p, a[1], b[1]), c[1]),
     XorLimb(p, XorLimb(p, a[2], b[2]), c[2]),
     XorLimb(p, XorLimb(p, a[3], b[3]), c[3]),
     XorLimb(p, XorLimb(p, a[4], b[4]), c[4]) >>

\* The sum of two words, modulo the size of a word.
AddWords(p, a, b) ==
  LET s4 == a[4] + b[4]
      s3 == a[3] + b[3] + (s4 \div p.m)
      s2 == a[2] + b[2] + (s3 \div p.m)
      s1 == a[1] + b[1] + (s2 \div p.m)
  IN <<s1 % p.m, s2 % p.m, s3 % p.m, s4 % p.m>>

\* The limb i places from the top of the word a, counted around the word
\* when cyclic, and 0 above the top limb otherwise.
LimbAt(a, i, cyclic) ==
  IF cyclic THEN a[((i + 7) % 4) + 1] ELSE IF i >= 1 THEN a[i] ELSE 0

\* The word a rotated (cyclic) or shifted right by r bits.
Moved(p, a, r, cyclic) ==
  LET q == r \div p.bits
      d == 2 ^ (r % p.bits)
      u == 2 ^ (p.bits - (r % p.bits))
  IN << (LimbAt(a, 1 - q, cyclic) \div d) + ((LimbAt(a, 0 - q, cyclic) % d) * u),
        (LimbAt(a, 2 - q, cyclic) \div d) + ((LimbAt(a, 1 - q, cyclic) % d) * u),
        (LimbAt(a, 3 - q, cyclic) \div d) + ((LimbAt(a, 2 - q, cyclic) % d) * u),
        (LimbAt(a, 4 - q, cyclic) \div d) + ((LimbAt(a, 3 - q, cyclic) % d) * u) >>

\* The functions Sigma (cyclic: three rotations) and sigma (two rotations
\* and a shift) of FIPS 180-4, for the amounts r.
Sigma(p, a, r, cyclic) ==
  XorWords(p, Moved(p, a, r[1], TRUE), Moved(p, a, r[2], TRUE),
           Moved(p, a, r[3], cyclic))

\* Ch(e, f, g) = (e and f) xor (not e and g); the two terms share no bit.
ChLimb(p, e, f, g) == AndLimb(p, e, f) + AndLimb(p, p.m - 1 - e, g)

Ch(p, e, f, g) ==
  << ChLimb(p, e[1], f[1], g[1]), ChLimb(p, e[2], f[2], g[2]),
     ChLimb(p, e[3], f[3], g[3]), ChLimb(p, e[4], f[4], g[4]) >>

\* Maj(a, b, c) = (a and b) xor (a and c) xor (b and c)
\*              = (a and b) + (c and (a xor b)).
MajLimb(p, a, b, c) == AndLimb(p, a, b) + AndLimb(p, c, XorLimb(p, a, b))

Maj(p, a, b, c) ==
  << MajLimb(p, a[1], b[1], c[1]), MajLimb(p, a[2], b[2], c[2]),
     MajLimb(p, a[3], b[3], c[3]), MajLimb(p, a[4], b[4], c[4]) >>

\* The round constant t as a word of the hash.
RoundConstant(p, t) ==
  IF p.bits = 16 THEN p.k[t]
  ELSE << p.k[t][1] \div 256, p.k[t][1] % 256,
          p.k[t][2] \div 256, p.k[t][2] % 256 >>

\* The message schedule: the sixteen words of the block, extended.
RECURSIVE Schedule(_, _)
Schedule(p, w) ==
  IF Len(w) >= p.rounds THEN w
  ELSE Schedule(p, Append(w,
         AddWords(p, AddWords(p, Sigma(p, w[Len(w) - 1], p.s1, FALSE), w[Len(w) - 6]),
                     AddWords(p, Sigma(p, w[Len(w) - 14], p.s0, FALSE), w[Len(w) - 15]))))

\* The working variables a..h after one round with the sums t1 and t2.
RoundStep(p, s, t1, t2) ==
  << AddWords(p, t1, t2), s[1], s[2], s[3], AddWords(p, s[4], t1), s[5], s[6], s[7] >>

\* The working variables s after the rounds t.. of the schedule w.
RECURSIVE Rounds(_, _, _, _)
Rounds(p, s, t, w) ==
  IF t > p.rounds \/ Len(s) # 8 THEN s
  ELSE Rounds(p,
              RoundStep(p, s,
                AddWords(p, AddWords(p, AddWords(p, s[8], Sigma(p, s[5], p.S1, TRUE)),
                                        Ch(p, s[5], s[6], s[7])),
                            AddWords(p, RoundConstant(p, t), w[t])),
                AddWords(p, Sigma(p, s[1], p.S0, TRUE), Maj(p, s[1], s[2], s[3]))),
              t + 1, w)

\* Each word of h added to the working variable r of its place.
AddEach(p, h, r) ==
  << AddWords(p, h[1], r[1]), AddWords(p, h[2], r[2]), AddWords(p, h[3], r[3]),
     AddWords(p, h[4], r[4]), AddWords(p, h[5], r[5]), AddWords(p, h[6], r[6]),
     AddWords(p, h[7], r[7]), AddWords(p, h[8], r[8]) >>

\* The compression function of SHA-2: the chaining value h (eight words)
\* after one block (sixteen words).
ShaCompress(p, h, block) == AddEach(p, h, Rounds(p, h, 1, Schedule(p, block)))

\* The message, a 1 bit, zeros up to the end of a block, and the length of
\* the message in bits.
ShaPadded(p, bytes, bitLength) ==
  bytes \o <<128>>
    \o [i \in 1..(((p.block - ((Len(bytes) + 1 + (p.block \div 8)) % p.block)) % p.block)
                    + (p.block \div 8) - 4) |-> 0]
    \o << bitLength \div 16777216, (bitLength \div 65536) % 256,
          (bitLength \div 256) % 256, bitLength % 256 >>

\* The word of the bytes m that starts after offset o.
WordAt(p, m, o) ==
  IF p.bits = 8 THEN SubSeq(m, o + 1, o + 4)
  ELSE << (m[o + 1] * 256) + m[o + 2], (m[o + 3] * 256) + m[o + 4],
          (m[o + 5] * 256) + m[o + 6], (m[o + 7] * 256) + m[o + 8] >>

\* The sixteen words of the block of m that starts after offset o.
RECURSIVE BlockWords(_, _, _, _)
BlockWords(p, m, o, acc) ==
  IF Len(acc) = 16 THEN acc
  ELSE BlockWords(p, m, o + (p.block \div 16), Append(acc, WordAt(p, m, o)))

\* The chaining value h after the blocks n.. of the padded message m.
RECURSIVE Absorb(_, _, _, _)
Absorb(p, h, m, n) ==
  IF n * p.block >= Len(m) \/ Len(h) # 8 THEN h
  ELSE Absorb(p, ShaCompress(p, h, BlockWords(p, m, n * p.block, <<>>)), m, n + 1)

\* The bytes of a word.
WordBytes(p, word) ==
  IF p.bits = 8 THEN word
  ELSE << word[1] \div 256, word[1] % 256, word[2] \div 256, word[2] % 256,
          word[3] \div 256, word[3] % 256, word[4] \div 256, word[4] % 256 >>

\* The first p.out bytes of the chaining value h.
RECURSIVE Truncated(_, _, _)
Truncated(p, h, acc) ==
  IF Len(acc) >= p.out THEN SubSeq(acc, 1, p.out)
  ELSE Truncated(p, Tail(h), acc \o WordBytes(p, h[1]))

\* The hash with parameters p (SHA-256, SHA-384 or SHA-512) of a sequence of
\* bytes.
ShaOf(p, bytes) ==
  Truncated(p, Absorb(p, p.init, ShaPadded(p, bytes, Len(bytes) * 8), 0), <<>>)

\* The key k, zeros up to the end of a block, the byte c xored into each.
HmacPad(p, k, c) ==
  [i \in 1..p.block |-> XorByte(p.xor, IF i <= Len(k) THEN k[i] ELSE 0, c)]

\* H((k xor opad) || H((k xor ipad) || message)) of RFC 2104.
HmacKeyed(p, k, message) ==
  ShaOf(p, HmacPad(p, k, 92) \o ShaOf(p, HmacPad(p, k, 54) \o message))

\* A key longer than a block is hashed first.
HmacOf(p, key, message) ==
  HmacKeyed(p, IF Len(key) > p.block THEN ShaOf(p, key) ELSE key, message)

\* crypto.createHmac(hash, key).update(message).digest(): HMAC (RFC 2104)
\* over SHA-256, SHA-384 or SHA-512.
HmacDigest(hash, key, message) ==
  HmacOf(ShaParams(hash), Utf8Bytes(key), Utf8Bytes(message))

(***************************************************************************)
(* Inputs of the verifier: tokens built the way the test suite builds      *)
(* them, and tampered variants.                                            *)
(***************************************************************************)
\* The exp claims tried lie within MaxDelta seconds of each expiry boundary.
MaxDelta == 1

\* now.getTime() of the calls: 1000 seconds and 999 milliseconds.
SampleNowMs == (1000 * 1000) + 999
SampleNowSeconds == SampleNowMs \div 1000

KeyOne == <<"t","o","p","-","s","e","c","r","e","t">>
KeyTwo == <<"o","t","h","e","r">>

HeaderFor(alg) ==
  JObj(<< [k |-> <<"a","l","g">>, v |-> JStr(alg)],
          [k |-> <<"t","y","p">>, v |-> JStr(<<"J","W","T">>)] >>)

\* base64url(JSON.stringify(value))
EncodeSegment(value) == Base64UrlEncode(Utf8Bytes(JsonStringify(value)))

AudA == <<"a">>
AudB == <<"b">>
AudC == <<"c">>

\* The payloads: an optional exp, an optional aud.
ClaimsOf(exp, aud) ==
  JObj((IF exp.def THEN << [k |-> <<"e","x","p">>, v |-> JNum(exp.v)] >> ELSE <<>>)
       \o (IF aud.def THEN << [k |-> <<"a","u","d">>, v |-> aud.v] >> ELSE <<>>))

\* The claims tried: an exp within MaxDelta seconds of each expiry boundary
\* (tolerance 60 and 0) without an aud, and each aud with an exp in the future
\* or none.
SampleClaims ==
  [exp : {UndefinedNumber}
           \cup { Some(SampleNowSeconds - tol + d) :
                    tol \in {0, 60}, d \in (-MaxDelta)..MaxDelta },
   aud : {UndefinedJson}]
    \cup [exp : {UndefinedNumber, Some(SampleNowSeconds + 60)},
          aud : {UndefinedJson, Some(JStr(AudB)), Some(JArr(<<JStr(AudA), JStr(AudB)>>))}]

\* How a token is made: its algorithm, its claims, and how it relates to the
\* secret it is verified with: signed with it, signed with it where it is the
\* empty string, signed with another secret, or signed with it and then
\* tampered with.  HS256 tokens carry every sample of claims; a token with no
\* claims is made with every algorithm and every secret, and one with an exp
\* and an aud with every algorithm.
TokenSources ==
  { [alg |-> AlgHS256, exp |-> claims.exp, aud |-> claims.aud, how |-> how] :
      claims \in SampleClaims,
      how \in {"valid", "first-char", "truncated", "last-bit"} }
    \cup { [alg |-> alg, exp |-> UndefinedNumber, aud |-> UndefinedJson, how |-> how] :
             alg \in {AlgHS256, AlgHS384, AlgHS512},
             how \in {"valid", "empty-secret", "wrong-secret", "first-char",
                      "truncated", "last-bit"} }
    \cup { [alg |-> alg, exp |-> Some(SampleNowSeconds + 60),
            aud |-> Some(JArr(<<JStr(AudA), JStr(AudB)>>)), how |-> "valid"] :
             alg \in {AlgHS384, AlgHS512} }

\* Malformed tokens, and beside them a well-formed one verified with its
\* secret and one verified with no secret at all.
FormatSources ==
  { [alg |-> AlgHS256, exp |-> UndefinedNumber, aud |-> UndefinedJson, how |-> how] :
      how \in {"valid", "missing-secret", "empty-header", "empty-payload",
               "empty-signature", "two-segments", "four-segments"} }

\* The secret the verifier is given for a token.
VerifierSecret(src) == IF src.how = "empty-secret" THEN <<>> ELSE KeyOne

\* The secret a token is signed with.
SignerSecret(src) ==
  IF src.how = "empty-secret" THEN <<>>
  ELSE IF src.how = "wrong-secret" THEN KeyTwo
  ELSE KeyOne

\* HmacDigest on the secrets and signing inputs of the tokens above, each
\* digest computed once.
KnownDigests ==
  [x \in UNION { { <<HashAlgorithmByJwtAlg(src.alg).v, secret,
                     EncodeSegment(HeaderFor(src.alg)) \o <<".">>
                       \o EncodeSegment(ClaimsOf(src.exp, src.aud))>> :
                     secret \in {SignerSecret(src), VerifierSecret(src)} } :
                 src \in TokenSources }
     |-> HmacDigest(x[1], x[2], x[3])]

\* crypto.createHmac(hash, key).update(message).digest()
createHmac(hash, key, message) ==
  IF <<hash, key, message>> \in DOMAIN KnownDigests
    THEN KnownDigests[<<hash, key, message>>]
  ELSE HmacDigest(hash, key, message)

createHmacSignatureSha256Only(signingInput, secret, algorithm) ==
  createHmac("sha256", secret, signingInput)

\* createHmacSignature, for an algorithm the table maps to a hash name.
createHmacSignature(signingInput, secret, algorithm) ==
  createHmac(HashAlgorithmByJwtAlg(algorithm).v, secret, signingInput)

(***************************************************************************)
(* What the caller receives.                                               *)
(***************************************************************************)
Pending == [kind |-> "pending", error |-> NoError]
ReturnedNull == [kind |-> "null", error |-> NoError]
Threw(err) == [kind |-> "threw", error |-> err]

(***************************************************************************)
(* verifyJwtToken.  Its checks run in the order of VerifyOrder; each check *)
(* is reached only when every earlier one passed, and reads the values the *)
(* earlier lines computed (the resolved token, its segments, the header).  *)
(***************************************************************************)
JwtError(kind) == [kind |-> kind, path |-> <<>>, keyword |-> <<>>]
JwtAlgError(kind, alg) == [kind |-> kind, path |-> <<>>, keyword |-> alg]

VerifyOrder ==
  <<"token", "secret", "algorithms", "format", "header", "alg", "signature",
    "payload", "exp", "nbf", "iat", "issuer", "subject", "audience">>

RECURSIVE Split(_, _)
\* String.prototype.split on a one-character separator.
Split(s, sep) ==
  IF \E i \in 1..Len(s) : s[i] = sep
    THEN LET i == CHOOSE i \in 1..Len(s) :
                    s[i] = sep /\ \A j \in 1..(i - 1) : s[j] # sep
         IN <<SubSeq(s, 1, i - 1)>> \o Split(SubSeq(s, i + 1, Len(s)), sep)
    ELSE <<s>>

\* jwtOptions.algorithms ?? ['HS256']
AllowedAlgorithms(o) == Coalesce(o.algorithms, Some(<<AlgHS256>>)).v

\* allowedAlgorithms.forEach: the first entry the table has no hash for.
UnsupportedAlgorithm(allowed) ==
  IF \E i \in 1..Len(allowed) : ~HashAlgorithmByJwtAlg(allowed[i]).def
    THEN Some(allowed[CHOOSE i \in 1..Len(allowed) :
                /\ ~HashAlgorithmByJwtAlg(allowed[i]).def
                /\ \A j \in 1..(i - 1) : HashAlgorithmByJwtAlg(allowed[j]).def])
    ELSE Undefined

\* token.split('.')
Segments(o, e) == Split(resolveJwtInputs(o, e).token.v, ".")

\* The parsed header and payload segments.
HeaderOf(o, e) == parseJwtSegment(Segments(o, e)[1])
PayloadOf(o, e) == parseJwtSegment(Segments(o, e)[2])

\* header.alg
HeaderAlg(o, e) == Member(HeaderOf(o, e).v, <<"a","l","g">>)

\* allowedAlgorithms.includes(header.alg)
AlgAllowed(allowed, alg) ==
  \E i \in 1..Len(allowed) : IsString(alg, allowed[i])

\* crypto.timingSafeEqual on two buffers of one length.
timingSafeEqual(a, b) == \A i \in 1..Len(a) : a[i] = b[i]

SignatureMismatchLengthOnly(expectedSignature, providedSignature) ==
  Len(expectedSignature) # Len(providedSignature)

\* The condition of lines 422-425.
SignatureMismatch(expectedSignature, providedSignature) ==
  \/ Len(expectedSignature) # Len(providedSignature)
  \/ ~timingSafeEqual(expectedSignature, providedSignature)

\* `${encodedHeader}.${encodedPayload}`
SigningInput(o, e) == Segments(o, e)[1] \o <<".">> \o Segments(o, e)[2]

ExpectedSignature(o, e) ==
  createHmacSignature(SigningInput(o, e), resolveJwtInputs(o, e).secret.v,
                      HeaderAlg(o, e).v.s)

ProvidedSignature(o, e) == base64UrlDecode(Segments(o, e)[3])

\* options.clockToleranceSeconds ?? 60
Tolerance(o) == Coalesce(o.clockToleranceSeconds, Some(60)).v

\* Math.floor(now.getTime() / 1000)
NowSeconds(now) == now \div 1000

\* typeof x === 'number'
IsNumber(x) == x.def /\ x.v.t = "num"

ExpiredStrict(payload, tolerance, nowSeconds) ==
  LET exp == Member(payload, <<"e","x","p">>)
  IN IsNumber(exp) /\ nowSeconds > exp.v.n + tolerance

\* Line 554: typeof payload.exp === 'number' && nowSeconds >= payload.exp + tolerance
Expired(payload, tolerance, nowSeconds) ==
  LET exp == Member(payload, <<"e","x","p">>)
  IN IsNumber(exp) /\ nowSeconds >= exp.v.n + tolerance

\* Line 558: typeof payload.nbf === 'number' && nowSeconds < payload.nbf - tolerance
NotYetValid(payload, tolerance, nowSeconds) ==
  LET nbf == Member(payload, <<"n","b","f">>)
  IN IsNumber(nbf) /\ nowSeconds < nbf.v.n - tolerance

\* Line 562: typeof payload.iat === 'number' && payload.iat - tolerance > nowSeconds
IssuedInFuture(payload, tolerance, nowSeconds) ==
  LET iat == Member(payload, <<"i","a","t">>)
  IN IsNumber(iat) /\ iat.v.n - tolerance > nowSeconds

\* Line 566: options.issuer && payload.iss !== options.issuer
IssuerMismatch(payload, o) ==
  BooleanOf(o.issuer) /\ ~IsString(Member(payload, <<"i","s","s">>), o.issuer.v)

\* Line 570: options.subject && payload.sub !== options.subject
SubjectMismatch(payload, o) ==
  BooleanOf(o.subject) /\ ~IsString(Member(payload, <<"s","u","b">>), o.subject.v)

\* An audience option: a string or an array of strings.
AudienceString(s) == [isArray |-> FALSE, s |-> s, list |-> <<>>]
AudienceList(list) == [isArray |-> TRUE, s |-> <<>>, list |-> list]
UndefinedAudience == [def |-> FALSE, v |-> AudienceString(<<>>)]

\* Whether options.audience is truthy: any array, or a non-empty string.
AudienceSet(audience) ==
  audience.def /\ (audience.v.isArray \/ Truthy(audience.v.s))

\* Array.isArray(options.audience) ? options.audience : [options.audience]
ExpectedAudience(audience) ==
  IF audience.v.isArray THEN audience.v.list ELSE <<audience.v.s>>

\* payload.aud ? (Array.isArray(payload.aud) ? payload.aud : [payload.aud]) : []
PayloadAudience(payload) ==
  LET aud == Member(payload, <<"a","u","d">>)
  IN IF JTruthy(aud) THEN (IF aud.v.t = "arr" THEN aud.v.e ELSE <<aud.v>>)
     ELSE <<>>

HasOverlapAll(expectedAudience, payloadAudience) ==
  \A i \in 1..Len(expectedAudience) :
    \E j \in 1..Len(payloadAudience) :
      payloadAudience[j] = JStr(expectedAudience[i])

\* expectedAudience.some((aud) => payloadAudience.includes(aud))
HasOverlap(expectedAudience, payloadAudience) ==
  \E i \in 1..Len(expectedAudience) :
    \E j \in 1..Len(payloadAudience) :
      payloadAudience[j] = JStr(expectedAudience[i])

\* Lines 574-586.
AudienceMismatch(payload, o) ==
  AudienceSet(o.audience)
    /\ ~HasOverlap(ExpectedAudience(o.audience), PayloadAudience(payload))

\* The error a check throws, NoError when it passes.  'alg' and 'exp' hold the
\* first property read of the parsed header and payload: reading a property of
\* null throws a TypeError.
CheckError(check, o, e, now) ==
  CASE check = "token" ->
         IF ~BooleanOf(resolveJwtInputs(o, e).token)
           THEN JwtError("token-required") ELSE NoError
    [] check = "secret" ->
         IF ~BooleanOf(resolveJwtInputs(o, e).secret)
           THEN JwtError("secret-required") ELSE NoError
    [] check = "algorithms" ->
         IF UnsupportedAlgorithm(AllowedAlgorithms(o)).def
           THEN JwtAlgError("unsupported-algorithm",
                            UnsupportedAlgorithm(AllowedAlgorithms(o)).v)
           ELSE NoError
    [] check = "format" ->
         IF Len(Segments(o, e)) # 3 THEN JwtError("format") ELSE NoError
    [] check = "header" ->
         IF ~HeaderOf(o, e).ok THEN JwtError("parse-header") ELSE NoError
    [] check = "alg" ->
         IF HeaderOf(o, e).v.t = "null" THEN JwtError("type-error")
         ELSE IF ~AlgAllowed(AllowedAlgorithms(o), HeaderAlg(o, e))
           THEN JwtError("alg-not-allowed")
         ELSE NoError
    [] check = "signature" ->
         IF HashAlgorithmByJwtAlg(HeaderAlg(o, e).v.s).v = "inherited"
           THEN JwtError("type-error")
         ELSE IF SignatureMismatch(ExpectedSignature(o, e), ProvidedSignature(o, e))
           THEN JwtError("signature")
         ELSE NoError
    [] check = "payload" ->
         IF ~PayloadOf(o, e).ok THEN JwtError("parse-payload") ELSE NoError
    [] check = "exp" ->
         IF PayloadOf(o, e).v.t = "null" THEN JwtError("type-error")
         ELSE IF Expired(PayloadOf(o, e).v, Tolerance(o), NowSeconds(now))
           THEN JwtError("expired")
         ELSE NoError
    [] check = "nbf" ->
         IF NotYetValid(PayloadOf(o, e).v, Tolerance(o), NowSeconds(now))
           THEN JwtError("not-yet-valid") ELSE NoError
    [] check = "iat" ->
         IF IssuedInFuture(PayloadOf(o, e).v, Tolerance(o), NowSeconds(now))
           THEN JwtError("issued-in-future") ELSE NoError
    [] check = "issuer" ->
         IF IssuerMismatch(PayloadOf(o, e).v, o)
           THEN JwtError("issuer-mismatch") ELSE NoError
    [] check = "subject" ->
         IF SubjectMismatch(PayloadOf(o, e).v, o)
           THEN JwtError("subject-mismatch") ELSE NoError
    [] check = "audience" ->
         IF AudienceMismatch(PayloadOf(o, e).v, o)
           THEN JwtError("audience-mismatch") ELSE NoError

\* return { header, payload }
VerificationResult(o, e) ==
  [kind |-> "result", error |-> NoError,
   header |-> HeaderOf(o, e).v, payload |-> PayloadOf(o, e).v]

RECURSIVE VerifyFrom(_, _, _, _)
\* The checks from the i-th on: the first error, or the result.
VerifyFrom(i, o, e, now) ==
  IF i > Len(VerifyOrder) THEN VerificationResult(o, e)
  ELSE IF CheckError(VerifyOrder[i], o, e, now) # NoError
    THEN [kind |-> "threw", error |-> CheckError(VerifyOrder[i], o, e, now)]
  ELSE VerifyFrom(i + 1, o, e, now)

\* verifyJwtToken(jwtOptions, now): what the caller receives.
verifyJwtToken(o, e, now) == VerifyFrom(1, o, e, now)

\* The options verifyJwtToken runs with: jwtOptions ?? {}.
JwtOptionsInForce == IF jwt.def THEN jwt.v ELSE EmptyJwtOptions

\* The position of a check in VerifyOrder.
CheckIndex(check) == CHOOSE i \in 1..Len(VerifyOrder) : VerifyOrder[i] = check

\* One check of verifyJwtToken: it throws, or hands over to the next check;
\* the last one returns the result.
VerifyStep ==
  /\ pc \in {VerifyOrder[i] : i \in 1..Len(VerifyOrder)}
  /\ checks' = Append(checks, pc)
  /\ LET err == CheckError(pc, JwtOptionsInForce, env, nowMs)
     IN IF err # NoError
          THEN outcome' = [kind |-> "threw", error |-> err] /\ pc' = "done"
        ELSE IF CheckIndex(pc) = Len(VerifyOrder)
          THEN /\ outcome' = VerificationResult(JwtOptionsInForce, env)
               /\ pc' = "done"
        ELSE outcome' = outcome /\ pc' = VerifyOrder[CheckIndex(pc) + 1]
  /\ UNCHANGED <<config, secrets, jwt, env, nowMs, console, verifierCalls, tokenSource>>

(***************************************************************************)
(* enforceSecurityOnConfig, in its two steps: the scan, then the decision. *)
(***************************************************************************)
\* Where the call continues after the scan: the scanner's exception leaves
\* enforceSecurityOnConfig at once.
AfterScanIgnoringThrow(scan) == "gate"

AfterScan(scan) == IF scan.error # NoError THEN "done" ELSE "gate"

\* Lines 364-365: normalizeSecretOptions, then the scan rooted at 'custom'.
EnforceScan ==
  /\ pc = "enforce"
  /\ LET scan == scanConfigForSecurityViolations(
                   config, normalizeSecretOptions(secrets), CustomRoot, ScanStart)
     IN /\ console' = scan.warnings
        /\ outcome' = IF scan.error # NoError THEN Threw(scan.error) ELSE outcome
        /\ pc' = AfterScan(scan)
  /\ UNCHANGED <<config, secrets, jwt, env, nowMs, verifierCalls, checks, tokenSource>>

\* Lines 367-376: return null, or enter verifyJwtToken(jwtOptions ?? {}, now).
EnforceGate ==
  /\ pc = "gate"
  /\ IF ~shouldValidateJwt(jwt, env)
       THEN /\ outcome' = IF outcome.kind = "pending" THEN ReturnedNull ELSE outcome
            /\ pc' = "done"
            /\ UNCHANGED verifierCalls
       ELSE /\ pc' = VerifyOrder[1]
            /\ verifierCalls' = verifierCalls + 1
            /\ UNCHANGED outcome
  /\ UNCHANGED <<config, secrets, jwt, env, nowMs, console, checks, tokenSource>>

(***************************************************************************)
(* Inputs of the scanner: every configuration with at most MaxNodes values *)
(* below the root.                                                         *)
(***************************************************************************)
KeyName == <<"n","a","m","e">>
KeyApiSecret == <<"a","p","i","S","e","c","r","e","t">>
KeyConstructor == <<"c","o","n","s","t","r","u","c","t","o","r">>

ScanKeys == {KeyName, KeyApiSecret, KeyConstructor}

RECURSIVE ValuesOfSize(_)
RECURSIVE EntriesOfSize(_, _)
RECURSIVE ElementsOfSize(_)

\* The mappings' entry lists holding n values in all, over distinct keys.
EntriesOfSize(n, keys) ==
  IF n = 0 THEN {<<>>}
  ELSE UNION { UNION { { <<[k |-> key, v |-> val]>> \o rest :
                           val \in ValuesOfSize(m),
                           rest \in EntriesOfSize(n - m, keys \ {key}) } :
                       m \in 1..n } :
               key \in keys }

\* The sequences' element lists holding n values in all.
ElementsOfSize(n) ==
  IF n = 0 THEN {<<>>}
  ELSE UNION { { <<val>> \o rest :
                   val \in ValuesOfSize(m), rest \in ElementsOfSize(n - m) } :
               m \in 1..n }

\* The values made of exactly n values (a container counts itself).
ValuesOfSize(n) ==
  IF n = 1 THEN {StringLeaf, FunctionLeaf}
  ELSE { Obj(e) : e \in EntriesOfSize(n - 1, ScanKeys) }
         \cup { Arr(e) : e \in ElementsOfSize(n - 1) }

ScanConfigs == { Obj(e) : e \in UNION { EntriesOfSize(n, ScanKeys) : n \in 0..MaxNodes } }

PathApiSecret == <<"c","u","s","t","o","m",".","a","p","i","S","e","c","r","e","t">>

ScanSecrets ==
  [blocklist : {Undefined, Some(<< <<"N","A","M","E">> >>),
                Some(<< <<>>, <<"n","a","m","e">> >>)},
   allowList : {Undefined, Some(<<PathApiSecret>>),
                Some(<< <<"C","u","s","t","o","m",".","N","a","m","e",".",
                          "a","p","i","S","e","c","r","e","t">>,
                        <<"c","u","s","t","o","m",".","n","a","m","e","[","0","]",".",
                          "A","P","I","S","E","C","R","E","T">> >>)},
   mode : {UndefinedName, Some("warn")}]

NoEnv == [n \in EnvNames |-> Undefined]
\* securityOptions.jwt undefined
NoJwtOptions == [def |-> FALSE, v |-> EmptyJwtOptions]

\* No token was made.
NoTokenSource ==
  [alg |-> <<>>, exp |-> UndefinedNumber, aud |-> UndefinedJson, how |-> "none"]

InitScan ==
  /\ config \in ScanConfigs
  /\ secrets \in ScanSecrets
  /\ jwt = NoJwtOptions
  /\ env = NoEnv
  /\ nowMs = 0
  /\ pc = "enforce"
  /\ console = <<>>
  /\ outcome = Pending
  /\ verifierCalls = 0
  /\ checks = <<>>
  /\ tokenSource = NoTokenSource

NextScan == EnforceScan \/ EnforceGate

ScanSpec == InitScan /\ [][NextScan]_vars

(***************************************************************************)
(* Building the tokens, and the calls of the verifier.                     *)
(***************************************************************************)
\* createHs256Token of the test suite, for any header and hash:
\* header.payload.base64url(HMAC(secret, header.payload))
SignToken(header, payload, secret, hash) ==
  LET signingInput == EncodeSegment(header) \o <<".">> \o EncodeSegment(payload)
  IN signingInput \o <<".">> \o Base64UrlEncode(createHmac(hash, secret, signingInput))

\* createHs256Token, and the same for HS384 and HS512.
TokenFor(alg, payload, secret) ==
  SignToken(HeaderFor(alg), payload, secret, HashAlgorithmByJwtAlg(alg).v)

\* A token tampered with: the first character of its signature segment
\* replaced, its last four characters removed, or the lowest bit of its
\* last character flipped; or malformed: a segment emptied, the signature
\* segment dropped, or a fourth segment added.
Tamper(token, how) ==
  LET segs == Split(token, ".")
      sig == segs[3]
      v == Unbase64(token[Len(token)])
      w == IF v % 2 = 0 THEN v + 1 ELSE v - 1
      c == Base64Alphabet[w + 1]
  IN IF how = "first-char"
       THEN segs[1] \o <<".">> \o segs[2] \o <<".">>
              \o <<(IF sig[1] = "A" THEN "B" ELSE "A")>> \o SubSeq(sig, 2, Len(sig))
     ELSE IF how = "truncated" THEN SubSeq(token, 1, Len(token) - 4)
     ELSE IF how = "last-bit"
       THEN SubSeq(token, 1, Len(token) - 1)
              \o <<(IF c = "+" THEN "-" ELSE IF c = "/" THEN "_" ELSE c)>>
     ELSE IF how = "empty-header" THEN <<".">> \o segs[2] \o <<".">> \o sig
     ELSE IF how = "empty-payload" THEN segs[1] \o <<".", ".">> \o sig
     ELSE IF how = "empty-signature" THEN segs[1] \o <<".">> \o segs[2] \o <<".">>
     ELSE IF how = "two-segments" THEN segs[1] \o <<".">> \o segs[2]
     ELSE IF how = "four-segments" THEN token \o <<".", "x">>
     ELSE token

\* The token a source record describes.
TokenOf(src) ==
  Tamper(TokenFor(src.alg, ClaimsOf(src.exp, src.aud), SignerSecret(src)), src.how)

SampleAudiences ==
  {UndefinedAudience, Some(AudienceString(AudB)), Some(AudienceString(AudC)),
   Some(AudienceList(<<AudC, AudA>>)), Some(AudienceList(<<>>))}

\* A direct call verifyJwtToken(jwtOptions, now).
InitJwt ==
  /\ config = Obj(<<>>)
  /\ secrets = [blocklist |-> Undefined, allowList |-> Undefined, mode |-> UndefinedName]
  /\ \/ \E src \in TokenSources,
           algorithms \in {Undefined, Some(<<AlgHS384, AlgHS512>>)},
           audience \in SampleAudiences,
           tolerance \in {UndefinedNumber, Some(0)} :
          /\ tokenSource = src
          /\ jwt = Some([EmptyJwtOptions EXCEPT
                           !.token = Some(TokenOf(src)),
                           !.secret = Some(VerifierSecret(src)),
                           !.algorithms = algorithms,
                           !.audience = audience,
                           !.clockToleranceSeconds = tolerance])
     \/ \E src \in FormatSources,
           token \in BOOLEAN,
           algorithms \in {Undefined, Some(<<AlgNone>>),
                           Some(<<KeyConstructor, AlgHS256>>)} :
          /\ tokenSource = IF token THEN src ELSE NoTokenSource
          /\ jwt = Some([EmptyJwtOptions EXCEPT
                           !.token = IF token THEN Some(TokenOf(src)) ELSE Undefined,
                           !.secret = IF src.how = "missing-secret"
                                        THEN Undefined ELSE Some(KeyOne),
                           !.algorithms = algorithms])
  /\ env = NoEnv
  /\ nowMs = SampleNowMs
  /\ pc = VerifyOrder[1]
  /\ console = <<>>
  /\ outcome = Pending
  /\ verifierCalls = 1
  /\ checks = <<>>

NextJwt == VerifyStep

JwtSpec == InitJwt /\ [][NextJwt]_vars

(***************************************************************************)
(* Inputs of the gate: a few configurations, the jwt options that decide   *)
(* whether the verifier runs, and the environment.                         *)
(***************************************************************************)
GateConfigs ==
  { Obj(<<>>),
    Obj(<< [k |-> KeyName, v |-> StringLeaf] >>),
    Obj(<< [k |-> KeyApiSecret, v |-> StringLeaf] >>),
    Obj(<< [k |-> KeyName, v |-> Obj(<< [k |-> KeyConstructor, v |-> StringLeaf] >>)] >>) }

\* The tokens at hand: an HS256 token that verifies, and one that has expired.
GateTokenSources ==
  { [alg |-> AlgHS256, exp |-> exp, aud |-> UndefinedJson, how |-> "valid"] :
      exp \in {UndefinedNumber, Some(SampleNowSeconds - 60)} }

GateJwtOptions(token) ==
  {NoJwtOptions}
    \cup { Some([EmptyJwtOptions EXCEPT
                   !.token = t, !.required = r, !.tokenEnvName = n,
                   !.secret = Some(KeyOne)]) :
             t \in {Undefined, Some(<<>>), Some(token)},
             r \in {UndefinedBoolean, Some(FALSE), Some(TRUE)},
             n \in {UndefinedName, Some("CI_TOKEN"), Some("")} }

GateEnvs(token) ==
  { [n \in EnvNames |->
       CASE n = JWT_TOKEN_ENV -> a
         [] n = "CI_TOKEN" -> b
         [] n = JWT_SECRET_ENV -> c
         [] OTHER -> Undefined] :
      a \in {Undefined, Some(<<>>), Some(token)},
      b \in {Undefined, Some(token)},
      c \in {Undefined, Some(KeyOne)} }

\* A call enforceSecurityOnConfig(config, { secrets, jwt }, now).
Init ==
  /\ config \in GateConfigs
  /\ secrets \in [blocklist : {Undefined}, allowList : {Undefined},
                   mode : {UndefinedName, Some("warn")}]
  /\ tokenSource \in GateTokenSources
  /\ jwt \in GateJwtOptions(TokenOf(tokenSource))
  /\ env \in GateEnvs(TokenOf(tokenSource))
  /\ nowMs = SampleNowMs
  /\ pc = "enforce"
  /\ console = <<>>
  /\ outcome = Pending
  /\ verifierCalls = 0
  /\ checks = <<>>

Next == EnforceScan \/ EnforceGate \/ VerifyStep

Spec == Init /\ [][Next]_vars

(***************************************************************************)
(* Vocabulary of the scanner's properties, read off the inputs.            *)
(***************************************************************************)
RECURSIVE KeyPathsOf(_, _)
\* Every mapping key of a value, at any depth, with its full path.
KeyPathsOf(value, path) ==
  IF value.t = "arr"
    THEN UNION { KeyPathsOf(value.e[i],
                            path \o <<"[">> \o NatToString(i - 1) \o <<"]">>) :
                 i \in 1..Len(value.e) }
  ELSE IF value.t = "obj"
    THEN UNION { {[key |-> value.e[i].k, path |-> path \o <<".">> \o value.e[i].k]}
                   \cup KeyPathsOf(value.e[i].v, path \o <<".">> \o value.e[i].k) :
                 i \in 1..Len(value.e) }
  ELSE {}

RECURSIVE LeavesOf(_)
\* Every leaf of a value.
LeavesOf(value) ==
  IF value.t = "leaf" THEN {value}
  ELSE IF value.t = "arr" THEN UNION { LeavesOf(value.e[i]) : i \in 1..Len(value.e) }
  ELSE UNION { LeavesOf(value.e[i].v) : i \in 1..Len(value.e) }

ConfigKeys == KeyPathsOf(config, CustomRoot)

\* The blocklist in force: the defaults and the caller's entries, in lowercase.
BlocklistInForce ==
  { DEFAULT_SECRET_BLOCKLIST[i] : i \in 1..Len(DEFAULT_SECRET_BLOCKLIST) }
    \cup (IF secrets.blocklist.def
            THEN { toLowerCase(secrets.blocklist.v[i]) :
                     i \in 1..Len(secrets.blocklist.v) }
            ELSE {})

AllowListInForce ==
  IF secrets.allowList.def
    THEN { toLowerCase(secrets.allowList.v[i]) : i \in 1..Len(secrets.allowList.v) }
    ELSE {}

ModeInForce == IF secrets.mode.def THEN secrets.mode.v ELSE "error"

KeyMatchesBlocklist(key) ==
  \E w \in BlocklistInForce : includes(toLowerCase(key), w)

\* The keys the policy is meant to flag: blocked and not allow-listed.
FlaggedKeys ==
  { kp \in ConfigKeys :
      KeyMatchesBlocklist(kp.key) /\ toLowerCase(kp.path) \notin AllowListInForce }

SupportedLeaves ==
  {StringLeaf, NumberLeaf, BooleanLeaf, NullLeaf, DateLeaf, ToJsonLeaf}

ScanDone == pc # "enforce"
ScanThrew ==
  outcome.kind = "threw" /\ outcome.error.kind \in {"secret", "unsafe", "unsupported"}
Warned(path) == \E i \in 1..Len(console) : console[i].path = path

(***************************************************************************)
(* C1: a tree with a blocked key that is not allow-listed makes the scan   *)
(* throw in mode 'error'.  (Stated for mode 'error' alone: this half of    *)
(* the claim is the one the code breaks.)                                  *)
(***************************************************************************)
C1_BlockedKeyThrowsInErrorMode ==
  (ScanDone /\ ModeInForce = "error" /\ FlaggedKeys # {}) => ScanThrew

(***************************************************************************)
(* C2: a blocked key whose exact full path, in lowercase, is in the        *)
(* allow-list gets no error and no warning.                                *)
(***************************************************************************)
C2_AllowListedKeyIsSilent ==
  ScanDone =>
    \A kp \in ConfigKeys :
      toLowerCase(kp.path) \in AllowListInForce =>
        /\ ~(outcome.kind = "threw" /\ outcome.error.kind = "secret"
               /\ outcome.error.path = kp.path)
        /\ ~Warned(kp.path)

\* { apiSecret: 'x' } with allowList ['custom.apiSecret'] has passed the scan.
C2_Witness ==
  /\ pc = "done"
  /\ config = Obj(<<[k |-> KeyApiSecret, v |-> StringLeaf]>>)
  /\ secrets.allowList = Some(<<PathApiSecret>>)
  /\ outcome = ReturnedNull
  /\ console = <<>>

(***************************************************************************)
(* C3: a key '__proto__', 'prototype' or 'constructor' at any depth makes  *)
(* the scan throw, in both modes, whatever the blocklist and allow-list.   *)
(***************************************************************************)
C3_UnsafeNameAlwaysThrows ==
  (ScanDone /\ \E kp \in ConfigKeys : kp.key \in PROHIBITED_PROPERTY_NAMES)
    => ScanThrew

\* In mode 'warn', an unsafe name inside a sequence inside a mapping threw.
C3_Witness ==
  /\ ScanDone
  /\ ModeInForce = "warn"
  /\ secrets.allowList.def
  /\ \E kp \in ConfigKeys :
       /\ kp.key \in PROHIBITED_PROPERTY_NAMES
       /\ includes(kp.path, <<"[","0","]",".">>)
       /\ outcome = Threw(UnsafeNameError(kp.path))

(***************************************************************************)
(* C4, as stated: a tree with no key matching the blocklist passes.        *)
(***************************************************************************)
C4_NoBlockedKeyPasses ==
  (ScanDone /\ \A kp \in ConfigKeys : ~KeyMatchesBlocklist(kp.key))
    => (~ScanThrew /\ console = <<>>)

(***************************************************************************)
(* C4, amended: a tree with no key matching the blocklist, no unsafe       *)
(* property name and only serializable leaves passes: the scan returns     *)
(* without throwing and without warning.                                   *)
(***************************************************************************)
C4_CleanTreePasses ==
  (/\ ScanDone
   /\ \A kp \in ConfigKeys :
        ~KeyMatchesBlocklist(kp.key) /\ kp.key \notin PROHIBITED_PROPERTY_NAMES
   /\ LeavesOf(config) \subseteq SupportedLeaves)
    => (~ScanThrew /\ console = <<>>)

\* A nested tree with keys, none of them blocked, has passed.
C4_Witness ==
  /\ pc = "done"
  /\ outcome = ReturnedNull
  /\ console = <<>>
  /\ Cardinality(ConfigKeys) >= 2
  /\ \A kp \in ConfigKeys : ~KeyMatchesBlocklist(kp.key)
  /\ \E kp \in ConfigKeys : includes(kp.path, <<"]">>)

(***************************************************************************)
(* Vocabulary of the gate's properties, read off the inputs.               *)
(***************************************************************************)
\* What the scan of the call's configuration does.
ScanOfCall ==
  scanConfigForSecurityViolations(
    config, normalizeSecretOptions(secrets), CustomRoot, ScanStart)

\* jwt.required is true.
JwtRequired == jwt.def /\ jwt.v.required = Some(TRUE)

\* The name of the token's environment variable.
TokenEnvNameInForce ==
  IF jwt.def /\ jwt.v.tokenEnvName.def THEN jwt.v.tokenEnvName.v ELSE JWT_TOKEN_ENV

\* The token the call resolves: the explicit option when it is given, else the
\* named environment variable when there is a name and the variable is set.
ResolvedToken ==
  IF jwt.def /\ jwt.v.token.def THEN jwt.v.token
  ELSE IF TokenEnvNameInForce # "" /\ TokenEnvNameInForce \in DOMAIN env
    THEN env[TokenEnvNameInForce]
  ELSE Undefined

TokenResolvable == ResolvedToken.def /\ ResolvedToken.v # <<>>

VerifierEntered == verifierCalls > 0 \/ checks # <<>>

(***************************************************************************)
(* C5: the scan runs first in every call: nothing of the verifier happens  *)
(* before it has completed, and when it throws the verifier is never       *)
(* invoked and the caller receives the scanner's error, whatever the jwt   *)
(* options and the environment hold.                                       *)
(***************************************************************************)
C5_ScanBeforeVerifier ==
  /\ pc = "enforce" => ~VerifierEntered /\ outcome = Pending
  /\ ScanOfCall.error # NoError =>
       /\ ~VerifierEntered
       /\ pc # "gate"
       /\ pc # "enforce" => pc = "done" /\ outcome = Threw(ScanOfCall.error)

\* The scan threw in a call whose jwt options require a token and supply one.
C5_Witness ==
  /\ pc = "done"
  /\ ScanOfCall.error # NoError
  /\ outcome = Threw(ScanOfCall.error)
  /\ JwtRequired
  /\ TokenResolvable

(***************************************************************************)
(* C6: after a passing scan the call returns null exactly when             *)
(* jwt.required is not true and no token is resolved from the explicit     *)
(* option or the named environment variable; in every other case it enters *)
(* verifyJwtToken once and the caller receives what that returns or        *)
(* throws.                                                                 *)
(***************************************************************************)
C6_NullExactlyWhenNothingToVerify ==
  (ScanOfCall.error = NoError /\ pc \notin {"enforce", "gate"}) =>
    IF ~JwtRequired /\ ~TokenResolvable
      THEN pc = "done" /\ outcome = ReturnedNull /\ ~VerifierEntered
      ELSE /\ verifierCalls = 1
           /\ outcome # ReturnedNull
           /\ pc = "done" => outcome = verifyJwtToken(JwtOptionsInForce, env, nowMs)

\* required = true with no token did not return null: the verifier refused
\* the missing token.
C6_Witness ==
  /\ pc = "done"
  /\ ScanOfCall.error = NoError
  /\ JwtRequired
  /\ ~TokenResolvable
  /\ outcome = Threw(JwtError("token-required"))

(***************************************************************************)
(* Vocabulary of the verifier's properties, read off the inputs.           *)
(***************************************************************************)
Done == pc = "done"
Options == jwt.v
TokenText == Options.token.v
TokenSegments == Split(TokenText, ".")

\* The allowed-algorithms set: the option, HS256 alone when it is not given.
AllowedSet ==
  IF Options.algorithms.def
    THEN { Options.algorithms.v[i] : i \in 1..Len(Options.algorithms.v) }
    ELSE {AlgHS256}

\* The tolerance in force, and now in whole seconds.
ToleranceInForce ==
  IF Options.clockToleranceSeconds.def THEN Options.clockToleranceSeconds.v ELSE 60
NowInSeconds == nowMs \div 1000

\* The HMAC of 'headerSegment.payloadSegment' under the verifier's secret and
\* the hash of the algorithm the token's header names.
HmacOfToken ==
  createHmac(
    (CASE tokenSource.alg = AlgHS256 -> "sha256"
       [] tokenSource.alg = AlgHS384 -> "sha384"
       [] tokenSource.alg = AlgHS512 -> "sha512"),
    Options.secret.v,
    TokenSegments[1] \o <<".">> \o TokenSegments[2])

DecodedSignature == base64UrlDecode(TokenSegments[3])

SignatureFailed == outcome = Threw(JwtError("signature"))

(***************************************************************************)
(* C7: a result is returned only if the decoded signature equals, byte for *)
(* byte, the HMAC of 'header.payload' under the resolved secret and the    *)
(* hash of the header's alg; once the signature is compared, every         *)
(* mismatch, of length or of content, fails with the one error 'JWT        *)
(* signature verification failed'.                                         *)
(***************************************************************************)
C7_ResultOnlyOnMatchingSignature ==
  Done =>
    /\ outcome.kind = "result" => DecodedSignature = HmacOfToken
    /\ (\E i \in 1..Len(checks) : checks[i] = "signature")
         /\ DecodedSignature # HmacOfToken
         => SignatureFailed

\* A token whose signature has the right length and the wrong content, and one
\* whose signature is too short, were both refused with the same error; here
\* the short one.
C7_Witness ==
  /\ Done
  /\ tokenSource.how = "truncated"
  /\ Len(DecodedSignature) < Len(HmacOfToken)
  /\ SignatureFailed

(***************************************************************************)
(* C8, as stated: a token signed with secret S and algorithm A, verified   *)
(* with S and with A allowed (no other option given), succeeds and returns *)
(* a payload equal to P and the signed header.                             *)
(***************************************************************************)
Untampered == tokenSource.how \in {"valid", "empty-secret"}
NoClaimOptions == ~Options.audience.def /\ ~Options.clockToleranceSeconds.def
SourcePayload == ClaimsOf(tokenSource.exp, tokenSource.aud)
RoundTripSucceeded ==
  /\ outcome.kind = "result"
  /\ outcome.payload = SourcePayload
  /\ outcome.header = HeaderFor(tokenSource.alg)

C8_RoundTripAlways ==
  (Done /\ Untampered /\ tokenSource.alg \in AllowedSet /\ NoClaimOptions)
    => RoundTripSucceeded

\* The claims of the source payload hold at now under the options: not
\* expired, and an audience in common when the audience option is set.
SourceExpired ==
  tokenSource.exp.def /\ NowInSeconds >= tokenSource.exp.v + ToleranceInForce

ExpectedAudienceSet ==
  IF Options.audience.v.isArray
    THEN { Options.audience.v.list[i] : i \in 1..Len(Options.audience.v.list) }
    ELSE { Options.audience.v.s }

SourceAudienceSet ==
  IF ~tokenSource.aud.def THEN {}
  ELSE IF tokenSource.aud.v.t = "arr"
    THEN { tokenSource.aud.v.e[i].s : i \in 1..Len(tokenSource.aud.v.e) }
  ELSE { tokenSource.aud.v.s }

SourceAudienceAccepted ==
  Options.audience.def => (ExpectedAudienceSet \cap SourceAudienceSet) # {}

(***************************************************************************)
(* C8, amended: a token signed with a non-empty secret S and a supported   *)
(* algorithm A, whose payload P passes the claim checks at now (here: not  *)
(* expired, audience accepted), verified with S and with A allowed,        *)
(* succeeds and returns a payload equal to P and the signed header.        *)
(***************************************************************************)
C8_RoundTripOfValidClaims ==
  (/\ Done
   /\ tokenSource.how = "valid"
   /\ tokenSource.alg \in AllowedSet
   /\ ~SourceExpired
   /\ SourceAudienceAccepted)
    => RoundTripSucceeded

\* An HS512 token with an exp and an aud claim came back whole.
C8_Witness ==
  /\ Done
  /\ tokenSource.how = "valid"
  /\ tokenSource.alg = AlgHS512
  /\ tokenSource.exp.def /\ tokenSource.aud.def
  /\ RoundTripSucceeded

(***************************************************************************)
(* C9: for a correctly signed token with an exp claim, verification fails  *)
(* as expired exactly when nowSeconds >= exp + tolerance, the tolerance    *)
(* being 60 when not given.                                                *)
(***************************************************************************)
CorrectlySigned == tokenSource.how = "valid" /\ tokenSource.alg \in AllowedSet
FailedAsExpired == outcome = Threw(JwtError("expired"))

C9_ExpiredExactlyAtBoundary ==
  (Done /\ CorrectlySigned /\ tokenSource.exp.def)
    => (FailedAsExpired <=> NowInSeconds >= tokenSource.exp.v + ToleranceInForce)

\* With the default tolerance, exp = now - 60 failed as expired.
C9_Witness ==
  /\ Done
  /\ CorrectlySigned
  /\ ~Options.clockToleranceSeconds.def
  /\ tokenSource.exp = Some(NowInSeconds - 60)
  /\ FailedAsExpired

(***************************************************************************)
(* C10: when the audience option is set, the audience check passes exactly *)
(* when the expected audiences and the payload's aud, each taken as a set  *)
(* (a bare string as a one-element set, a missing aud as the empty set),   *)
(* have an element in common.                                              *)
(***************************************************************************)
AudienceChecked == Len(checks) > 0 /\ checks[Len(checks)] = "audience"
AudienceFailed == outcome = Threw(JwtError("audience-mismatch"))

C10_AudienceOverlap ==
  (Done /\ AudienceChecked /\ Options.audience.def)
    => /\ AudienceFailed <=> (ExpectedAudienceSet \cap SourceAudienceSet) = {}
       /\ ~AudienceFailed <=> outcome.kind = "result"

\* aud ['a','b'] against the expected audience 'c' failed with the audience
\* mismatch.
C10_Witness ==
  /\ Done
  /\ tokenSource.aud = Some(JArr(<<JStr(AudA), JStr(AudB)>>))
  /\ Options.audience = Some(AudienceString(AudC))
  /\ AudienceFailed

(***************************************************************************)
(* C11: once the token is split, a token that does not yield exactly three *)
(* non-empty segments (a wrong count, or an empty header, payload or       *)
(* signature segment) fails with the format error, and no segment is       *)
(* decoded before that.                                                    *)
(***************************************************************************)
TokenWasSplit == \E i \in 1..Len(checks) : checks[i] = "format"
ThreeNonEmptySegments ==
  Len(TokenSegments) = 3 /\ \A i \in 1..3 : TokenSegments[i] # <<>>
FormatFailed ==
  /\ outcome = Threw(JwtError("format"))
  /\ checks[Len(checks)] = "format"

C11_MalformedTokenFailsWithFormatError ==
  (Done /\ TokenWasSplit /\ ~ThreeNonEmptySegments) => FormatFailed

(***************************************************************************)
(* Vocabulary of the order of the checks.                                  *)
(***************************************************************************)
\* The order the checks are claimed to run in.
ClaimedOrder ==
  <<"token", "secret", "algorithms", "format", "header", "alg", "signature",
    "payload", "exp", "nbf", "iat", "issuer", "subject", "audience">>

\* The secret the call resolves, as the token is resolved.
SecretResolvable ==
  IF Options.secret.def THEN Options.secret.v # <<>>
  ELSE env[JWT_SECRET_ENV].def /\ env[JWT_SECRET_ENV].v # <<>>

\* The entries of the algorithms allow-list that are none of the three
\* supported algorithms.
UnsupportedEntries == AllowedSet \ {AlgHS256, AlgHS384, AlgHS512}

\* The checks evaluated are the first ones of the claimed order, every one
\* but the last passed, and the outcome is the last one's.
EvaluatedInClaimedOrder ==
  /\ Len(checks) \in 1..Len(ClaimedOrder)
  /\ \A i \in 1..Len(checks) : checks[i] = ClaimedOrder[i]
  /\ \A i \in 1..(Len(checks) - 1) : CheckError(checks[i], Options, env, nowMs) = NoError
  /\ IF outcome.kind = "threw"
       THEN outcome.error = CheckError(checks[Len(checks)], Options, env, nowMs)
       ELSE /\ outcome.kind = "result"
            /\ checks = ClaimedOrder
            /\ CheckError(checks[Len(checks)], Options, env, nowMs) = NoError

(***************************************************************************)
(* C12: the checks run in one fixed order and the first one that fails is  *)
(* the one reported: missing token, missing secret, an unsupported entry   *)
(* of the algorithms allow-list (before the token is parsed), segment      *)
(* count, header, header alg, signature, payload, then exp, nbf, iat,      *)
(* issuer, subject, audience; no later check is evaluated after a failure. *)
(***************************************************************************)
C12_FirstFailingCheckReported ==
  Done =>
    /\ EvaluatedInClaimedOrder
    /\ ~TokenResolvable => outcome = Threw(JwtError("token-required"))
    /\ TokenResolvable /\ ~SecretResolvable => outcome = Threw(JwtError("secret-required"))
    /\ TokenResolvable /\ SecretResolvable /\ UnsupportedEntries # {} =>
         /\ outcome.kind = "threw"
         /\ outcome.error.kind = "unsupported-algorithm"
         /\ outcome.error.keyword \in UnsupportedEntries
         /\ checks = SubSeq(ClaimedOrder, 1, 3)

(***************************************************************************)
(* Vocabulary of the traversal in mode 'warn'.                             *)
(***************************************************************************)
RECURSIVE KeysInOrder(_, _, _)
\* The mapping keys of a value from its i-th child on, with their full paths,
\* in depth-first insertion order: a key, then the keys beneath it, then its
\* later siblings.
KeysInOrder(value, path, i) ==
  IF value.t = "leaf" \/ i > Len(value.e) THEN <<>>
  ELSE IF value.t = "arr"
    THEN KeysInOrder(value.e[i], path \o <<"[">> \o NatToString(i - 1) \o <<"]">>, 1)
           \o KeysInOrder(value, path, i + 1)
  ELSE << [key |-> value.e[i].k, path |-> path \o <<".">> \o value.e[i].k] >>
         \o KeysInOrder(value.e[i].v, path \o <<".">> \o value.e[i].k, 1)
         \o KeysInOrder(value, path, i + 1)

\* The paths of the blocked, non-allow-listed keys, in that order.
FlaggedPathsInOrder ==
  LET flagged == SelectSeq(KeysInOrder(config, CustomRoot, 1),
                           LAMBDA kp : kp \in FlaggedKeys)
  IN [i \in 1..Len(flagged) |-> flagged[i].path]

\* The paths the warnings name, in the order they were emitted.
WarnedPathsInOrder == [i \in 1..Len(console) |-> console[i].path]

\* The tree holds an unconditional violation: an unsafe property name or an
\* unsupported leaf.
UnconditionalViolation ==
  \/ \E kp \in ConfigKeys : kp.key \in PROHIBITED_PROPERTY_NAMES
  \/ ~(LeavesOf(config) \subseteq SupportedLeaves)

(***************************************************************************)
(* C13: in mode 'warn' a secret-keyword match neither halts nor prunes the *)
(* traversal: a scan that meets no unconditional violation emits exactly   *)
(* one warning per blocked, non-allow-listed key, in depth-first insertion *)
(* order, and an unsafe property name or unsupported leaf after or beneath *)
(* a warned key still makes the scan throw.                                *)
(***************************************************************************)
C13_WarnModeScansWholeTree ==
  (ScanDone /\ ModeInForce = "warn") =>
    IF UnconditionalViolation
      THEN outcome.kind = "threw" /\ outcome.error.kind \in {"unsafe", "unsupported"}
      ELSE ~ScanThrew /\ WarnedPathsInOrder = FlaggedPathsInOrder

====
